---- MODULE Spec2Model ----
(***************************************************************************)
(* RCshearwall.py: a layered RC shear wall driven through a gravity phase  *)
(* and one lateral phase (cyclic or pushover) with OpenSeesPy.             *)
(*                                                                         *)
(* The script is straight-line code; pc is its position.  Every call of    *)
(* the analysis engine (analyze) is a step of the solution driver whose    *)
(* outcome (Converged, Diverged, AnalysisFailed) the script cannot choose: *)
(* it is drawn nondeterministically.                                       *)
(*                                                                         *)
(* Units.  Thicknesses are in 1e-7 m (0.0125 m = 125000).  Load factors    *)
(* and pseudo-time are in tenths (LoadControl 0.1 = 1).  Displacements are *)
(* in an integer unit in which MaxDisp and DispIncr are whole numbers;     *)
(* the arithmetic is exact (the script's is IEEE double).                  *)
(***************************************************************************)
EXTENDS Integers, Sequences, FiniteSets, TLC

\* ------------------------------------------------------------ bounds
MaxMaxDisp == 3
MaxDispIncr == 2
MaxPath == 0

\* ------------------------------------------------------------ model data
NumNodes == 55
NDF == 6
Nodes == 1..NumNodes
DOFs == Nodes \X (1..NDF)

\* y coordinate of a node in decimetres: rows of 5 nodes, 0.2 m apart
NodeY(n) == ((n - 1) \div 5) * 2

NominalThickness == 1250000

Section1Count == 10
Section1Layers ==
  << <<4, 125000>>, <<11, 2403>>, <<11, 3676>>, <<4, 246960>>, <<4, 246960>>,
     <<4, 246960>>, <<4, 246960>>, <<11, 3676>>, <<11, 2403>>, <<4, 125000>> >>

Section2Count == 8
Section2Layers ==
  << <<4, 125000>>, <<11, 2403>>, <<10, 2356>>, <<4, 495241>>, <<4, 495241>>,
     <<10, 2356>>, <<11, 2403>>, <<4, 125000>> >>

RECURSIVE SumThickness(_)
SumThickness(layers) ==
  IF layers = << >> THEN 0
  ELSE Head(layers)[2] + SumThickness(Tail(layers))

\* ------------------------------------------------------------ configuration
AnalysisTypes == {"Gravity", "Pushover", "Cyclic", "Other"}

ControlNode == 53
ControlDOF == 1

GravitySteps == 10
CyclicSteps == 700

GravityMaxIter == 200
CyclicMaxIter == 100
PushoverMaxIter == 1000

GravityLoadIncr == 1
CyclicLoadIncr == 1
FullGravityFactor == 10

\* int(MaxDisp/DispIncr): Python's int() truncates toward zero
NstepsOf(maxDisp, dispIncr) == maxDisp \div dispIncr

\* ceil(maxDisp/dispIncr) for positive arguments
CeilDiv(a, b) == (a + b - 1) \div b


\* ------------------------------------------------------------ state
VARIABLES
  pc,            \* position of the script
  AnalysisType,  \* the analysis selected at the head of the script
  MaxDisp,       \* pushover target displacement
  DispIncr,      \* pushover displacement increment
  sections,      \* layered shell sections defined so far
  mesh,          \* nodes and shell elements defined so far
  fs,            \* output directories and files of the pushover phase
  fixed,         \* homogeneous single-point constraints (fixY)
  patterns,      \* load patterns of the domain
  time,          \* committed pseudo-time of the domain
  committed,     \* committed state: [id, disp] (disp: control DOF)
  trial,         \* trial state of the step in progress
  pathv,         \* value the Path series supplies for the trial time
  analysis,      \* analysis objects (handler, test, integrator)
  eqn,           \* DOF -> equation number (-1: none)
  step,          \* steps done by the running analyze / loop index j
  drv,           \* solution driver state
  iter,          \* iterations done in the step in progress
  ret,           \* value returned by the last analyze step
  NstepsPush,    \* pushover step count
  dataPush,      \* pushover output rows
  hist,          \* history of the running phase
  lateral,       \* lateral phases started so far
  eqnGravity     \* numbering in use when the gravity analysis was wiped

vars == << pc, AnalysisType, MaxDisp, DispIncr, sections, mesh, fs, fixed,
           patterns, time, committed, trial, pathv, analysis, eqn, step, drv,
           iter, ret, NstepsPush, dataPush, hist, lateral, eqnGravity >>


Outcomes == {"Converged", "Diverged", "AnalysisFailed"}

NoAnalysis == [handler |-> "none", maxIter |-> 0, integrator |-> "none", incr |-> 0]
NoEqn == [d \in DOFs |-> -1]
NoHist == [attempts |-> 0, commits |-> 0, singularAt |-> 0, seen |-> {},
           last |-> "none", test |-> "none", written |-> {}]

\* ------------------------------------------------------------ engine
\* Single-point constraints carried by the load patterns (sp command).
PatternSPs(pats) == UNION {{<<s[1], s[2]>> : s \in pats[p].sps} : p \in DOMAIN pats}

\* Position of a DOF in the node-major order of the domain
Index(d) == (d[1] - 1) * NDF + d[2]

\* DOFs that receive an equation: the Plain handler leaves constrained DOFs
\* out of the system, the Penalty handler keeps them and enforces the
\* constraint by a penalty term.
Numbered(handler, constrained) ==
  IF handler = "Plain" THEN DOFs \ constrained ELSE DOFs

\* Equation numbers, in the order of the numbered DOFs.  The permutation the
\* RCM numberer applies is not modelled; which DOFs are numbered does not
\* depend on it.
Number(handler, constrained) ==
  LET on == Numbered(handler, constrained)
      idx == {Index(e) : e \in on}
  IN [d \in DOFs |->
        IF d \in on THEN Cardinality({i \in idx : i < Index(d)}) ELSE -1]

\* The control DOF is driven by an imposed displacement of an active pattern
Imposed(pats) ==
  {s \in UNION {pats[p].sps : p \in {q \in DOMAIN pats : ~pats[q].const}} :
     s[1] = ControlNode /\ s[2] = ControlDOF}

\* Control-DOF displacement the step aims at.  Under LoadControl with no
\* imposed displacement (gravity) it stays: wall, mesh and the vertical load
\* at the control node are symmetric about the control node's axis.
TrialDisp(an, c, pats, v) ==
  IF an.integrator = "DisplacementControl" THEN c.disp + an.incr
  ELSE IF Imposed(pats) # {} THEN v * (CHOOSE s \in Imposed(pats) : TRUE)[3]
  ELSE c.disp

Candidate(v) ==
  [id |-> committed.id + 1, disp |-> TrialDisp(analysis, committed, patterns, v)]

\* Pseudo-time of the trial state: LoadControl advances it by its increment,
\* DisplacementControl solves for it (the load factor of the new state).
TrialTime(an, c) ==
  IF an.integrator = "DisplacementControl" THEN c.id ELSE time + an.incr

SeriesFactor(ts, t, v) == IF ts = "Linear" THEN t ELSE v

\* Load factors at pseudo-time t: constant patterns keep theirs
ApplyLoad(pats, t, v) ==
  [p \in DOMAIN pats |->
     IF pats[p].const THEN pats[p]
     ELSE [pats[p] EXCEPT !.factor = SeriesFactor(pats[p].ts, t, v)]]

\* End of a step: commit the trial state after Converged, else revert
CommitOrRevert(outcome, com, tri) == IF outcome = "Converged" THEN tri ELSE com

ReturnCode(outcome) == IF outcome = "Converged" THEN 0 ELSE -3

HistBegin(h) == [h EXCEPT !.attempts = @ + 1, !.test = "none"]

HistEnd(h, outcome) ==
  [h EXCEPT !.commits = IF outcome = "Converged" THEN @ + 1 ELSE @,
            !.seen = @ \cup {outcome},
            !.last = outcome,
            !.test = "none",
            !.singularAt = IF outcome = "AnalysisFailed" /\ @ = 0
                           THEN h.attempts ELSE @]

\* A step starts: the system is numbered if it is not yet
StartStep ==
  eqn' = IF eqn = NoEqn
         THEN Number(analysis.handler, fixed \cup PatternSPs(patterns))
         ELSE eqn

\* A step ends with the given outcome for the trial state tri, reached with
\* the series value v
FinishStep(outcome, tri, v) ==
  /\ drv' = "Idle"
  /\ iter' = 0
  /\ ret' = ReturnCode(outcome)
  /\ committed' = CommitOrRevert(outcome, committed, tri)
  /\ trial' = committed'
  /\ time' = IF outcome = "Converged" THEN TrialTime(analysis, tri) ELSE time
  /\ patterns' = IF outcome = "Converged"
                 THEN ApplyLoad(patterns, TrialTime(analysis, tri), v)
                 ELSE patterns
  /\ pathv' = 0


\* ------------------------------------------------------------ script data
BaseDOFs == {d \in DOFs : NodeY(d[1]) = 0}

GravityPattern ==
  [ts |-> "Linear", const |-> FALSE, factor |-> 0,
   loads |-> {<<ControlNode, 2, -320000>>}, sps |-> {}]

CyclicPattern ==
  [ts |-> "Path", const |-> FALSE, factor |-> 0,
   loads |-> {}, sps |-> {<<ControlNode, 1, 1>>}]

PushoverPattern ==
  [ts |-> "Linear", const |-> FALSE, factor |-> 0,
   loads |-> {<<ControlNode, ControlDOF, 1>>}, sps |-> {}]

GravityAnalysis ==
  [handler |-> "Plain", maxIter |-> GravityMaxIter,
   integrator |-> "LoadControl", incr |-> GravityLoadIncr]

CyclicAnalysis ==
  [handler |-> "Penalty", maxIter |-> CyclicMaxIter,
   integrator |-> "LoadControl", incr |-> CyclicLoadIncr]

\* the integrator given twice the increment
PushoverAnalysis_DoubleIncr(dispIncr) ==
  [handler |-> "Penalty", maxIter |-> PushoverMaxIter,
   integrator |-> "DisplacementControl", incr |-> 2 * dispIncr]

\* the test line of the cyclic block left in the pushover block
PushoverAnalysis_CyclicTest(dispIncr) ==
  [handler |-> "Penalty", maxIter |-> CyclicMaxIter,
   integrator |-> "DisplacementControl", incr |-> dispIncr]

\* the constraints line of the gravity block left in the pushover block
PushoverAnalysis_Plain(dispIncr) ==
  [handler |-> "Plain", maxIter |-> PushoverMaxIter,
   integrator |-> "DisplacementControl", incr |-> dispIncr]

PushoverAnalysis(dispIncr) ==
  [handler |-> "Penalty", maxIter |-> PushoverMaxIter,
   integrator |-> "DisplacementControl", incr |-> dispIncr]

\* loadConst left out
loadConst_None(pats) == pats

\* loadConst('-time', 0.0): every pattern of the domain becomes constant
loadConst(pats) == [p \in DOMAIN pats |-> [pats[p] EXCEPT !.const = TRUE]]

\* wipe() in place of wipeAnalysis(): the domain goes too
wipe(com) == [id |-> 0, disp |-> 0]

\* wipeAnalysis(): the analysis objects go, the domain state stays
wipeAnalysis(com) == com

\* np.zeros((NstepsPush+1, 5)), of which columns 0 and 1 are used
ZeroRows(n) == [r \in 0..n |-> <<0, 0>>]

\* dataPush[j+1,0], dataPush[j+1,1]
PushRow(disp, loadFactor) == <<disp * 1000, -loadFactor>>

\* values the file of the Path series (RCshearwall_Load_input.txt, not part
\* of the sources) may hold for a step
PathValues == 0..MaxPath

\* ------------------------------------------------------------ mesh
\* a shell element table with the third and fourth node of element 26
\* exchanged
ShellElements_Swapped ==
  << <<1, 1, 2, 7, 6, 1>>, <<2, 2, 3, 8, 7, 2>>, <<3, 3, 4, 9, 8, 2>>, <<4, 4, 5, 10, 9, 1>>,
     <<5, 6, 7, 12, 11, 1>>, <<6, 7, 8, 13, 12, 2>>, <<7, 8, 9, 14, 13, 2>>, <<8, 9, 10, 15, 14, 1>>,
     <<9, 11, 12, 17, 16, 1>>, <<10, 12, 13, 18, 17, 2>>, <<11, 13, 14, 19, 18, 2>>, <<12, 14, 15, 20, 19, 1>>,
     <<13, 16, 17, 22, 21, 1>>, <<14, 17, 18, 23, 22, 2>>, <<15, 18, 19, 24, 23, 2>>, <<16, 19, 20, 25, 24, 1>>,
     <<17, 21, 22, 27, 26, 1>>, <<18, 22, 23, 28, 27, 2>>, <<19, 23, 24, 29, 28, 2>>, <<20, 24, 25, 30, 29, 1>>,
     <<21, 26, 27, 32, 31, 1>>, <<22, 27, 28, 33, 32, 2>>, <<23, 28, 29, 34, 33, 2>>, <<24, 29, 30, 35, 34, 1>>,
     <<25, 31, 32, 37, 36, 1>>, <<26, 32, 33, 37, 38, 2>>, <<27, 33, 34, 39, 38, 2>>, <<28, 34, 35, 40, 39, 1>>,
     <<29, 36, 37, 42, 41, 1>>, <<30, 37, 38, 43, 42, 2>>, <<31, 38, 39, 44, 43, 2>>, <<32, 39, 40, 45, 44, 1>>,
     <<33, 41, 42, 47, 46, 1>>, <<34, 42, 43, 48, 47, 2>>, <<35, 43, 44, 49, 48, 2>>, <<36, 44, 45, 50, 49, 1>>,
     <<37, 46, 47, 52, 51, 1>>, <<38, 47, 48, 53, 52, 2>>, <<39, 48, 49, 54, 53, 2>>, <<40, 49, 50, 55, 54, 1>> >>

\* The shell element statements in the order of the script, each
\* <<tag, n1, n2, n3, n4, secTag>>.
ShellElements ==
  << <<1, 1, 2, 7, 6, 1>>, <<2, 2, 3, 8, 7, 2>>, <<3, 3, 4, 9, 8, 2>>, <<4, 4, 5, 10, 9, 1>>,
     <<5, 6, 7, 12, 11, 1>>, <<6, 7, 8, 13, 12, 2>>, <<7, 8, 9, 14, 13, 2>>, <<8, 9, 10, 15, 14, 1>>,
     <<9, 11, 12, 17, 16, 1>>, <<10, 12, 13, 18, 17, 2>>, <<11, 13, 14, 19, 18, 2>>, <<12, 14, 15, 20, 19, 1>>,
     <<13, 16, 17, 22, 21, 1>>, <<14, 17, 18, 23, 22, 2>>, <<15, 18, 19, 24, 23, 2>>, <<16, 19, 20, 25, 24, 1>>,
     <<17, 21, 22, 27, 26, 1>>, <<18, 22, 23, 28, 27, 2>>, <<19, 23, 24, 29, 28, 2>>, <<20, 24, 25, 30, 29, 1>>,
     <<21, 26, 27, 32, 31, 1>>, <<22, 27, 28, 33, 32, 2>>, <<23, 28, 29, 34, 33, 2>>, <<24, 29, 30, 35, 34, 1>>,
     <<25, 31, 32, 37, 36, 1>>, <<26, 32, 33, 38, 37, 2>>, <<27, 33, 34, 39, 38, 2>>, <<28, 34, 35, 40, 39, 1>>,
     <<29, 36, 37, 42, 41, 1>>, <<30, 37, 38, 43, 42, 2>>, <<31, 38, 39, 44, 43, 2>>, <<32, 39, 40, 45, 44, 1>>,
     <<33, 41, 42, 47, 46, 1>>, <<34, 42, 43, 48, 47, 2>>, <<35, 43, 44, 49, 48, 2>>, <<36, 44, 45, 50, 49, 1>>,
     <<37, 46, 47, 52, 51, 1>>, <<38, 47, 48, 53, 52, 2>>, <<39, 48, 49, 54, 53, 2>>, <<40, 49, 50, 55, 54, 1>> >>

ShellTag(e) == e[1]
ShellOf(e) == [nodes |-> << e[2], e[3], e[4], e[5] >>, sec |-> e[6]]

\* wipe(): a domain with no node and no element
NoMesh == [nodes |-> {}, shells |-> << >>]

\* all node and shell element statements executed
FullMesh ==
  [nodes |-> Nodes,
   shells |-> [tag \in 1..Len(ShellElements) |-> ShellOf(ShellElements[tag])]]

\* ------------------------------------------------------------ output files
\* PushDataDir = r'PushoverResults'
PushDataDir == "PushoverResults"

\* the files of the two pushover recorders and of plt.savefig
ReactFile == [dir |-> "PushoverOut", name |-> "React.out"]
DispFile == [dir |-> "PushoverOut", name |-> "Disp.out"]
CurveFile == [dir |-> "PushoverOut", name |-> "RCshearwall_PushoverCurve.png"]

\* the directories the script names, each of which the working directory
\* may or may not hold when the script starts
OutputDirs == {PushDataDir, ReactFile.dir, DispFile.dir, CurveFile.dir}

\* exists: directories present; ensured: directories the script has checked
\* and created when absent; recorders: files of the recorders in place;
\* written: files written so far
NoFiles == [exists |-> {}, ensured |-> {}, recorders |-> {}, written |-> {}]

\* if not os.path.exists(dir): os.makedirs(dir)
makedirs(f, dir) ==
  [f EXCEPT !.exists = @ \cup {dir}, !.ensured = @ \cup {dir}]

\* recorder('Node', '-file', file, '-closeOnWrite', ...)
recorder(f, file) == [f EXCEPT !.recorders = @ \cup {file}]

\* a committed step is recorded: each recorder opens its file, appends a
\* line and closes it; a file whose directory is absent cannot be opened
record(f, outcome) ==
  IF outcome = "Converged"
  THEN [f EXCEPT !.written = @ \cup {r \in f.recorders : r.dir \in f.exists}]
  ELSE f

\* plt.savefig(file, dpi=1200)
savefig(f, file) == [f EXCEPT !.written = @ \cup {file}]

\* the pushover phase set up in a working directory holding the
\* directories pre
PushoverFiles(pre) ==
  recorder(recorder(makedirs([NoFiles EXCEPT !.exists = pre], PushDataDir),
                    ReactFile),
           DispFile)

\* ------------------------------------------------------------ script actions
Init ==
  /\ pc = "section1"
  /\ AnalysisType \in AnalysisTypes
  /\ MaxDisp = 0
  /\ DispIncr = 0
  /\ sections = << >>
  /\ mesh = NoMesh
  /\ fs = NoFiles
  /\ fixed = {}
  /\ patterns = << >>
  /\ time = 0
  /\ committed = [id |-> 0, disp |-> 0]
  /\ trial = [id |-> 0, disp |-> 0]
  /\ pathv = 0
  /\ analysis = NoAnalysis
  /\ eqn = NoEqn
  /\ step = 0
  /\ drv = "Idle"
  /\ iter = 0
  /\ ret = 0
  /\ NstepsPush = 0
  /\ dataPush = << >>
  /\ hist = NoHist
  /\ lateral = << >>
  /\ eqnGravity = NoEqn

DefineSection1 ==
  /\ pc = "section1"
  /\ sections' = sections @@ (1 :> [count |-> Section1Count, layers |-> Section1Layers])
  /\ pc' = "section2"
  /\ UNCHANGED << AnalysisType, mesh, fs, MaxDisp, DispIncr, fixed, patterns, time, committed, trial, pathv,
                  analysis, eqn, step, drv, iter, ret, NstepsPush, dataPush,
                  hist, lateral, eqnGravity >>

DefineSection2 ==
  /\ pc = "section2"
  /\ sections' = sections @@ (2 :> [count |-> Section2Count, layers |-> Section2Layers])
  /\ pc' = "node"
  /\ UNCHANGED << AnalysisType, mesh, fs, MaxDisp, DispIncr, fixed, patterns, time, committed, trial, pathv,
                  analysis, eqn, step, drv, iter, ret, NstepsPush, dataPush,
                  hist, lateral, eqnGravity >>

\* node(tag, x, y, z): the next of the 55 node statements, tags in order
DefineNode ==
  /\ pc = "node"
  /\ LET tag == Cardinality(mesh.nodes) + 1 IN
       /\ mesh' = [mesh EXCEPT !.nodes = @ \cup {tag}]
       /\ pc' = IF tag = NumNodes THEN "shell" ELSE "node"
  /\ UNCHANGED << AnalysisType, fs, MaxDisp, DispIncr, sections, fixed, patterns, time, committed,
                  trial, pathv, analysis, eqn, step, drv, iter, ret, NstepsPush,
                  dataPush, hist, lateral, eqnGravity >>

\* element(ShellType, tag, n1, n2, n3, n4, secTag): the next of the shell
\* element statements
DefineShell ==
  /\ pc = "shell"
  /\ LET k == Cardinality(DOMAIN mesh.shells) + 1
         e == ShellElements[k] IN
       /\ mesh' = [mesh EXCEPT !.shells = @ @@ (ShellTag(e) :> ShellOf(e))]
       /\ pc' = IF k = Len(ShellElements) THEN "fixY" ELSE "shell"
  /\ UNCHANGED << AnalysisType, fs, MaxDisp, DispIncr, sections, fixed, patterns, time, committed,
                  trial, pathv, analysis, eqn, step, drv, iter, ret, NstepsPush,
                  dataPush, hist, lateral, eqnGravity >>

FixBase ==
  /\ pc = "fixY"
  /\ fixed' = fixed \cup BaseDOFs
  /\ pc' = "gravitySetup"
  /\ UNCHANGED << AnalysisType, mesh, fs, MaxDisp, DispIncr, sections, patterns, time, committed, trial, pathv,
                  analysis, eqn, step, drv, iter, ret, NstepsPush, dataPush,
                  hist, lateral, eqnGravity >>

GravitySetup ==
  /\ pc = "gravitySetup"
  /\ patterns' = patterns @@ (1 :> GravityPattern)
  /\ analysis' = GravityAnalysis
  /\ step' = 0
  /\ hist' = NoHist
  /\ pc' = "gravity"
  /\ UNCHANGED << AnalysisType, mesh, fs, MaxDisp, DispIncr, sections, fixed, time, committed, trial, pathv, eqn,
                  drv, iter, ret, NstepsPush, dataPush, lateral, eqnGravity >>

\* one step of analyze(10); analyze returns at the first step that fails
GravityStep ==
  /\ pc = "gravity"
  /\ drv = "Idle"
  /\ step < GravitySteps
  /\ \E o \in Outcomes :
       /\ StartStep
       /\ FinishStep(o, Candidate(0), 0)
       /\ hist' = HistEnd(HistBegin(hist), o)
       /\ step' = step + 1
       /\ pc' = IF o = "Converged" /\ step + 1 < GravitySteps
                THEN "gravity" ELSE "loadConst"
  /\ UNCHANGED << AnalysisType, mesh, fs, MaxDisp, DispIncr, sections, fixed, analysis, NstepsPush, dataPush,
                  lateral, eqnGravity >>

LoadConstWipe ==
  /\ pc = "loadConst"
  /\ patterns' = loadConst(patterns)
  /\ time' = 0
  /\ committed' = wipeAnalysis(committed)
  /\ trial' = committed'
  /\ analysis' = NoAnalysis
  /\ eqnGravity' = eqn
  /\ eqn' = NoEqn
  /\ pc' = "ifCyclic"
  /\ UNCHANGED << AnalysisType, mesh, fs, MaxDisp, DispIncr, sections, fixed, pathv, step, drv, iter, ret,
                  NstepsPush, dataPush, hist, lateral >>

CyclicSetup ==
  /\ pc = "ifCyclic"
  /\ AnalysisType = "Cyclic"
  /\ patterns' = patterns @@ (2 :> CyclicPattern)
  /\ analysis' = CyclicAnalysis
  /\ step' = 0
  /\ hist' = NoHist
  /\ lateral' = Append(lateral, "Cyclic")
  /\ pc' = "cyclic"
  /\ UNCHANGED << AnalysisType, mesh, fs, MaxDisp, DispIncr, sections, fixed, time, committed, trial, pathv, eqn,
                  drv, iter, ret, NstepsPush, dataPush, eqnGravity >>

SkipCyclic ==
  /\ pc = "ifCyclic"
  /\ AnalysisType # "Cyclic"
  /\ pc' = "ifPushover"
  /\ UNCHANGED << AnalysisType, mesh, fs, MaxDisp, DispIncr, sections, fixed, patterns, time, committed, trial,
                  pathv, analysis, eqn, step, drv, iter, ret, NstepsPush,
                  dataPush, hist, lateral, eqnGravity >>

\* one step of analyze(700)
CyclicStep ==
  /\ pc = "cyclic"
  /\ drv = "Idle"
  /\ step < CyclicSteps
  /\ \E o \in Outcomes, v \in PathValues :
       /\ StartStep
       /\ FinishStep(o, Candidate(v), v)
       /\ hist' = HistEnd(HistBegin(hist), o)
       /\ step' = step + 1
       /\ pc' = IF o = "Converged" /\ step + 1 < CyclicSteps
                THEN "cyclic" ELSE "ifPushover"
  /\ UNCHANGED << AnalysisType, mesh, fs, MaxDisp, DispIncr, sections, fixed, analysis, NstepsPush, dataPush,
                  lateral, eqnGravity >>

PushoverSetup ==
  /\ pc = "ifPushover"
  /\ AnalysisType = "Pushover"
  /\ patterns' = patterns @@ (2 :> PushoverPattern)
  /\ MaxDisp' \in 1..MaxMaxDisp
  /\ DispIncr' \in 1..MaxDispIncr
  /\ NstepsPush' = NstepsOf(MaxDisp', DispIncr')
  /\ analysis' = PushoverAnalysis(DispIncr')
  /\ dataPush' = ZeroRows(NstepsPush')
  /\ step' = 0
  /\ hist' = NoHist
  /\ lateral' = Append(lateral, "Pushover")
  /\ \E pre \in SUBSET OutputDirs : fs' = PushoverFiles(pre)
  /\ pc' = "pushover"
  /\ UNCHANGED << AnalysisType, mesh, sections, fixed, time, committed, trial, pathv, eqn,
                  drv, iter, ret, eqnGravity >>

SkipPushover ==
  /\ pc = "ifPushover"
  /\ AnalysisType # "Pushover"
  /\ pc' = "done"
  /\ UNCHANGED << AnalysisType, mesh, fs, MaxDisp, DispIncr, sections, fixed, patterns, time, committed, trial,
                  pathv, analysis, eqn, step, drv, iter, ret, NstepsPush,
                  dataPush, hist, lateral, eqnGravity >>

\* Body of "for j in range(NstepsPush)": analyze(1), then row j+1 is written
\* from nodeDisp and getLoadFactor whatever analyze returned.
WriteRow(o) ==
  /\ dataPush' = [dataPush EXCEPT ![step + 1] =
                    PushRow(committed'.disp, patterns'[2].factor)]
  /\ hist' = [HistEnd(HistBegin(hist), o) EXCEPT !.written = @ \cup {step + 1}]

PushoverStep ==
  /\ pc = "pushover"
  /\ drv = "Idle"
  /\ step < NstepsPush
  /\ \E o \in Outcomes :
       /\ StartStep
       /\ FinishStep(o, Candidate(0), 0)
       /\ WriteRow(o)
       /\ fs' = record(fs, o)
       /\ step' = step + 1
       /\ pc' = "pushover"
  /\ UNCHANGED << AnalysisType, mesh, MaxDisp, DispIncr, sections, fixed, analysis, NstepsPush, lateral,
                  eqnGravity >>

PushoverExit ==
  /\ pc = "pushover"
  /\ drv = "Idle"
  /\ step = NstepsPush
  /\ pc' = "plot"
  /\ UNCHANGED << AnalysisType, mesh, fs, MaxDisp, DispIncr, sections, fixed, patterns, time, committed, trial,
                  pathv, analysis, eqn, step, drv, iter, ret, NstepsPush,
                  dataPush, hist, lateral, eqnGravity >>

\* Post-processing: np.loadtxt reads the test data (an exception when the
\* file cannot be read), the curves are plotted and plt.savefig writes the
\* image (an exception when its directory does not exist).
SavePlot ==
  /\ pc = "plot"
  /\ \E testData \in BOOLEAN :
       IF testData /\ CurveFile.dir \in fs.exists
       THEN fs' = savefig(fs, CurveFile) /\ pc' = "done"
       ELSE fs' = fs /\ pc' = "failed"
  /\ UNCHANGED << AnalysisType, mesh, MaxDisp, DispIncr, sections, fixed, patterns, time, committed, trial,
                  pathv, analysis, eqn, step, drv, iter, ret, NstepsPush,
                  dataPush, hist, lateral, eqnGravity >>

Next ==
  \/ DefineSection1
  \/ DefineSection2
  \/ DefineNode
  \/ DefineShell
  \/ FixBase
  \/ GravitySetup
  \/ GravityStep
  \/ LoadConstWipe
  \/ CyclicSetup
  \/ SkipCyclic
  \/ CyclicStep
  \/ PushoverSetup
  \/ SkipPushover
  \/ PushoverStep
  \/ PushoverExit
  \/ SavePlot

Spec == Init /\ [][Next]_vars


\* ------------------------------------------------------------ one step, by iteration
(***************************************************************************)
(* The same steps at the grain of the iterations of the algorithm: a step  *)
(* begins (IterateStep), every iteration solves the linear system, updates *)
(* the trial state and runs the convergence test, and the step ends in     *)
(* Converged, Diverged or AnalysisFailed before analyze returns.           *)
(***************************************************************************)
\* one step too many: range(NstepsPush+1), analyze(11), analyze(701)
StepsOf_OneMore(p) ==
  IF p = "gravity" THEN GravitySteps + 1
  ELSE IF p = "cyclic" THEN CyclicSteps + 1
  ELSE NstepsPush + 1

StepsOf(p) ==
  IF p = "gravity" THEN GravitySteps
  ELSE IF p = "cyclic" THEN CyclicSteps
  ELSE NstepsPush

SeriesValues(p) == IF p = "cyclic" THEN PathValues ELSE {0}

\* test('NormDispIncr', tol, maxIter): the budget of the running analysis
TestMaxIter(an) == an.maxIter

BeginStep ==
  /\ pc \in {"gravity", "cyclic", "pushover"}
  /\ drv = "Idle"
  /\ step < StepsOf(pc)
  /\ \E v \in SeriesValues(pc) :
       /\ StartStep
       /\ pathv' = v
       /\ trial' = Candidate(v)
  /\ drv' = "IterateStep"
  /\ iter' = 0
  /\ hist' = HistBegin(hist)
  /\ UNCHANGED << pc, AnalysisType, mesh, fs, MaxDisp, DispIncr, sections, fixed, patterns,
                  time, committed, analysis, step, ret, NstepsPush, dataPush,
                  lateral, eqnGravity >>

\* one iteration: solve, update the trial state, test the increment norm
Iterate ==
  /\ drv = "IterateStep"
  /\ \E r \in {"singular", "pass", "fail"} :
       IF r = "singular"
       THEN drv' = "AnalysisFailed" /\ iter' = iter /\ hist' = hist
       ELSE /\ iter' = iter + 1
            /\ hist' = [hist EXCEPT !.test = r]
            /\ drv' = IF r = "pass" THEN "Converged"
                      ELSE IF iter' >= TestMaxIter(analysis) THEN "Diverged"
                      ELSE "IterateStep"
  /\ UNCHANGED << pc, AnalysisType, mesh, fs, MaxDisp, DispIncr, sections, fixed, patterns,
                  time, committed, trial, pathv, analysis, eqn, step, ret,
                  NstepsPush, dataPush, lateral, eqnGravity >>

EndGravityStep ==
  /\ pc = "gravity"
  /\ drv \in Outcomes
  /\ FinishStep(drv, trial, pathv)
  /\ hist' = HistEnd(hist, drv)
  /\ step' = step + 1
  /\ pc' = IF drv = "Converged" /\ step + 1 < GravitySteps
           THEN "gravity" ELSE "loadConst"
  /\ UNCHANGED << AnalysisType, mesh, fs, MaxDisp, DispIncr, sections, fixed, analysis, eqn,
                  NstepsPush, dataPush, lateral, eqnGravity >>

EndCyclicStep ==
  /\ pc = "cyclic"
  /\ drv \in Outcomes
  /\ FinishStep(drv, trial, pathv)
  /\ hist' = HistEnd(hist, drv)
  /\ step' = step + 1
  /\ pc' = IF drv = "Converged" /\ step + 1 < CyclicSteps
           THEN "cyclic" ELSE "ifPushover"
  /\ UNCHANGED << AnalysisType, mesh, fs, MaxDisp, DispIncr, sections, fixed, analysis, eqn,
                  NstepsPush, dataPush, lateral, eqnGravity >>

EndPushoverStep ==
  /\ pc = "pushover"
  /\ drv \in Outcomes
  /\ FinishStep(drv, trial, pathv)
  /\ dataPush' = [dataPush EXCEPT ![step + 1] =
                    PushRow(committed'.disp, patterns'[2].factor)]
  /\ hist' = [HistEnd(hist, drv) EXCEPT !.written = @ \cup {step + 1}]
  /\ fs' = record(fs, drv)
  /\ step' = step + 1
  /\ pc' = "pushover"
  /\ UNCHANGED << AnalysisType, mesh, MaxDisp, DispIncr, sections, fixed, analysis, eqn,
                  NstepsPush, lateral, eqnGravity >>

\* The states in which the analysis of a phase has just been set up, the
\* gravity phase (when it is over) having converged in all its steps.
BuiltModel ==
  /\ sections = (1 :> [count |-> Section1Count, layers |-> Section1Layers])
                @@ (2 :> [count |-> Section2Count, layers |-> Section2Layers])
  /\ mesh = FullMesh
  /\ fixed = BaseDOFs
  /\ pathv = 0
  /\ eqn = NoEqn
  /\ step = 0
  /\ drv = "Idle"
  /\ iter = 0
  /\ ret = 0
  /\ hist = NoHist

GravityDone ==
  /\ time = 0
  /\ committed = [id |-> GravitySteps, disp |-> 0]
  /\ trial = committed
  /\ eqnGravity = Number("Plain", BaseDOFs)

GravityStart ==
  /\ BuiltModel
  /\ pc = "gravity"
  /\ AnalysisType \in AnalysisTypes
  /\ MaxDisp = 0
  /\ DispIncr = 0
  /\ patterns = (1 :> GravityPattern)
  /\ time = 0
  /\ committed = [id |-> 0, disp |-> 0]
  /\ trial = committed
  /\ analysis = GravityAnalysis
  /\ fs = NoFiles
  /\ NstepsPush = 0
  /\ dataPush = << >>
  /\ lateral = << >>
  /\ eqnGravity = NoEqn

CyclicStart ==
  /\ BuiltModel
  /\ GravityDone
  /\ pc = "cyclic"
  /\ AnalysisType = "Cyclic"
  /\ MaxDisp = 0
  /\ DispIncr = 0
  /\ patterns = loadConst(ApplyLoad((1 :> GravityPattern), GravitySteps * GravityLoadIncr, 0))
                @@ (2 :> CyclicPattern)
  /\ analysis = CyclicAnalysis
  /\ fs = NoFiles
  /\ NstepsPush = 0
  /\ dataPush = << >>
  /\ lateral = << "Cyclic" >>

PushoverStart ==
  /\ BuiltModel
  /\ GravityDone
  /\ pc = "pushover"
  /\ AnalysisType = "Pushover"
  /\ MaxDisp \in 1..MaxMaxDisp
  /\ DispIncr \in 1..MaxDispIncr
  /\ patterns = loadConst(ApplyLoad((1 :> GravityPattern), GravitySteps * GravityLoadIncr, 0))
                @@ (2 :> PushoverPattern)
  /\ analysis = PushoverAnalysis(DispIncr)
  /\ fs \in {PushoverFiles(pre) : pre \in SUBSET OutputDirs}
  /\ NstepsPush = NstepsOf(MaxDisp, DispIncr)
  /\ dataPush = ZeroRows(NstepsPush)
  /\ lateral = << "Pushover" >>

InitIter == GravityStart \/ CyclicStart \/ PushoverStart

NextIter ==
  \/ BeginStep
  \/ Iterate
  \/ EndGravityStep
  \/ EndCyclicStep
  \/ EndPushoverStep
  \/ PushoverExit

SpecIter == InitIter /\ [][NextIter]_vars

\* The script is one sequential program: a statement that can run does run.
SpecIterFair == SpecIter /\ WF_vars(NextIter)


\* ------------------------------------------------------------ properties
LoopOver == {"plot", "done", "failed"}

InPushover == pc \in {"pushover"} \cup LoopOver /\ lateral = << "Pushover" >>

StepPcs == {"gravity", "cyclic", "pushover"}

\* C1: the pushover output holds exactly one pair per committed step: the
\* number of rows written by the loop equals the number of steps that
\* converged and were committed (no row for a step that diverged or failed).
C1_OnePairPerCommittedStep ==
  InPushover => Cardinality(hist.written) = hist.commits

\* C2: in every phase the committed state changes only in a step that ended
\* Converged; a step that ended otherwise leaves the committed state as it
\* was before the step and the trial state is discarded.
C2_CommitOnlyOnConverged ==
  [][ /\ (committed' # committed =>
            /\ pc \in StepPcs
            /\ hist'.last = "Converged"
            /\ hist'.commits = hist.commits + 1)
      /\ (hist'.attempts = hist.attempts + 1 /\ hist'.last # "Converged" =>
            /\ committed' = committed
            /\ trial' = committed) ]_vars

C2_Witness ==
  /\ pc = "pushover"
  /\ hist.last = "Diverged"
  /\ hist.commits = 1
  /\ hist.attempts = 3
  /\ committed.id = GravitySteps + 1

\* C3 as stated: every converged pushover step raises the committed control
\* displacement by exactly DispIncr, and when no step diverges the number of
\* committed steps at the end of the loop is NstepsPush.
C3_Original ==
  InPushover =>
    /\ committed.disp = hist.commits * DispIncr
    /\ (pc \in LoopOver /\ "Diverged" \notin hist.seen => hist.commits = NstepsPush)

\* C3 as amended: every converged pushover step raises the committed control
\* displacement by exactly DispIncr, and when no step diverges or fails on a
\* singular system the number of committed steps at the end of the loop is
\* NstepsPush.
C3_ExactIncrement ==
  /\ [][ pc = "pushover" /\ hist'.commits = hist.commits + 1 =>
           committed'.disp = committed.disp + DispIncr ]_vars
  /\ [](InPushover /\ pc \in LoopOver /\ hist.seen \subseteq {"Converged"} =>
          hist.commits = NstepsPush)

C3_Witness ==
  /\ InPushover
  /\ pc = "done"
  /\ hist.seen = {"Converged"}
  /\ DispIncr = 1
  /\ NstepsPush = 3
  /\ committed.disp = 3

\* C4: after the first step of a phase whose linear solve is singular no
\* further step is attempted in that phase and no further output pair is
\* produced.
C4_HaltAfterSingular ==
  hist.singularAt # 0 =>
    /\ hist.attempts = hist.singularAt
    /\ hist.written \subseteq 1..hist.singularAt

\* C5: a step ends Converged exactly when the increment-norm test passes at
\* an iteration within the budget (200 gravity, 100 cyclic, 1000 pushover)
\* and Diverged exactly when the budget is used up without the test passing;
\* a Diverged step returns a failure to the caller and is not committed.
C5_Budget(p) == IF p = "gravity" THEN 200 ELSE IF p = "cyclic" THEN 100 ELSE 1000

C5_StepOutcome ==
  /\ [](drv # "Idle" =>
          /\ (drv = "Converged" <=>
                hist.test = "pass" /\ iter >= 1 /\ iter <= C5_Budget(pc))
          /\ (drv = "Diverged" <=>
                hist.test = "fail" /\ iter = C5_Budget(pc))
          /\ (drv = "IterateStep" => iter < C5_Budget(pc)))
  /\ [][ drv = "Diverged" /\ drv' = "Idle" =>
           /\ ret' # 0
           /\ committed' = committed
           /\ hist'.commits = hist.commits ]_vars

\* a pushover step is under way after an earlier step ended Diverged
C5_Witness ==
  /\ pc = "pushover"
  /\ hist.seen = {"Diverged"}
  /\ drv = "Converged"
  /\ iter = 2
  /\ hist.attempts = 2

\* C6: NstepsPush is ceil(MaxDisp / DispIncr), so that NstepsPush increments
\* reach at least MaxDisp.
C6_CeilSteps ==
  InPushover =>
    /\ NstepsPush = CeilDiv(MaxDisp, DispIncr)
    /\ NstepsPush * DispIncr >= MaxDisp

\* C7: after each converged gravity step the gravity load factor is the
\* number of committed steps times 0.1, when the loads are frozen the factor
\* is 1.0, and the analysis objects are wiped before a lateral phase starts.
C7_FullGravityAtFreeze ==
  /\ (pc \in {"gravity", "loadConst"} =>
        patterns[1].factor = hist.commits * GravityLoadIncr)
  /\ (1 \in DOMAIN patterns /\ patterns[1].const =>
        patterns[1].factor = FullGravityFactor)
  /\ (pc \in {"ifCyclic", "ifPushover"} /\ lateral = << >> => analysis = NoAnalysis)

\* C8: for every AnalysisType at most one lateral phase runs; while it runs
\* pattern 2 is the one active pattern beside the constant gravity pattern 1,
\* whose load factor and load vector keep the values frozen by loadConst.
C8_OnePrimaryPattern ==
  /\ [](/\ Len(lateral) <= 1
        /\ (AnalysisType \notin {"Cyclic", "Pushover"} => lateral = << >>)
        /\ (lateral # << >> =>
              /\ DOMAIN patterns = {1, 2}
              /\ {p \in DOMAIN patterns : ~patterns[p].const} = {2}))
  /\ [][ lateral # << >> => patterns'[1] = patterns[1] ]_vars

C8_Witness ==
  /\ pc = "pushover"
  /\ hist.commits = 2
  /\ patterns[1].factor = FullGravityFactor
  /\ patterns[2].factor # 0

\* C9: each layered shell section declares as many layers as it lists, all
\* thicknesses are positive and they sum exactly to the nominal 0.125 m.
C9_LayerSums ==
  \A k \in DOMAIN sections :
    /\ sections[k].count = Len(sections[k].layers)
    /\ \A i \in 1..Len(sections[k].layers) : sections[k].layers[i][2] > 0
    /\ SumThickness(sections[k].layers) = NominalThickness

\* C10 as stated: with no boundary condition redefined in between, the DOFs
\* that carry an equation number and their numbers are the same in the
\* gravity phase and in the pushover phase.
C10_Original ==
  InPushover /\ eqn # NoEqn /\ eqnGravity # NoEqn /\ PatternSPs(patterns) = {}
    => eqn = eqnGravity

\* C10 as amended: a numbering lasts until wipeAnalysis or a redefinition of
\* the boundary conditions; the gravity phase (Plain handler) numbers exactly
\* the unconstrained DOFs, the pushover phase (Penalty handler) numbers every
\* DOF, the fixed base DOFs included.
C10_NumberingPerAnalysis ==
  /\ [][ eqn' = eqn \/ pc = "loadConst"
         \/ \A d \in DOFs : eqn[d] # -1 => eqn'[d] = eqn[d] ]_vars
  /\ [](pc = "gravity" /\ eqn # NoEqn =>
          {d \in DOFs : eqn[d] # -1} = DOFs \ fixed)
  /\ [](InPushover /\ eqn # NoEqn =>
          /\ {d \in DOFs : eqn[d] # -1} = DOFs
          /\ (eqnGravity # NoEqn =>
                {d \in DOFs : eqnGravity[d] # -1} = DOFs \ fixed))

C10_Witness ==
  /\ pc = "pushover"
  /\ eqnGravity[<<6, 1>>] = 0
  /\ eqn[<<6, 1>>] = 30
  /\ eqnGravity[<<1, 1>>] = -1
  /\ eqn[<<1, 1>>] = 0


\* C11: steps run one after the other and always finish: a step under way
\* can always iterate, each iteration ends the step or counts one more
\* iteration, and the count stays within the budget (200 gravity, 100
\* cyclic, 1000 pushover), so the step reaches Converged, Diverged or
\* AnalysisFailed after at most that many iterations; a step begins only
\* when the driver is Idle, the step before it having ended; and a phase
\* attempts at most its prescribed number of steps (10 gravity, 700 cyclic,
\* NstepsPush pushover); and, the script running every statement it reaches,
\* each phase does come to its end, no step being left under way.
C11_StepLimit(p) ==
  IF p \in {"gravity", "loadConst"} THEN 10
  ELSE IF p \in {"cyclic", "ifPushover"} THEN 700
  ELSE NstepsPush

C11_StepsTerminate ==
  /\ [](drv = "IterateStep" =>
          /\ iter < C5_Budget(pc)
          /\ ENABLED Iterate)
  /\ [](drv \in Outcomes => pc \in StepPcs /\ iter <= C5_Budget(pc))
  /\ [](drv = "Idle" => iter = 0)
  /\ [](hist.attempts <= C11_StepLimit(pc))
  /\ [][ drv = "IterateStep" =>
           \/ drv' \in Outcomes
           \/ drv' = "IterateStep" /\ iter' = iter + 1 ]_vars
  /\ [][ drv # "IterateStep" /\ drv' = "IterateStep" =>
           /\ drv = "Idle"
           /\ hist'.attempts = hist.attempts + 1 ]_vars
  /\ [][ (drv \in Outcomes) => (drv' = "Idle" /\ hist'.last = drv) ]_vars
  /\ [](pc \notin StepPcs => drv = "Idle")
  /\ <>(pc \notin StepPcs)

\* the pushover loop is over, all its steps attempted, one of them having
\* used up the iteration budget
C11_Witness ==
  /\ pc = "plot"
  /\ lateral = << "Pushover" >>
  /\ NstepsPush = 2
  /\ hist.attempts = 2
  /\ hist.seen = {"Converged", "Diverged"}


\* C12: the shell mesh is regular: every shell element e defined so far has
\* a tag in 1..40 and, with r = (e-1) div 4 and c = (e-1) mod 4, the nodes
\* (5r+c+1, 5r+c+2, 5r+c+7, 5r+c+6) in that order, section 1 when c is 0 or
\* 3 and section 2 when c is 1 or 2, each of its nodes being a defined node
\* and its section a defined section; and once the mesh statements are
\* over the elements are exactly 1..40 and the nodes exactly the 55.
C12_MeshPcs == {"section1", "section2", "node", "shell"}

C12_RegularMesh ==
  /\ \A e \in DOMAIN mesh.shells :
       LET r == (e - 1) \div 4
           c == (e - 1) % 4
       IN /\ e \in 1..40
          /\ mesh.shells[e].nodes =
               << 5*r + c + 1, 5*r + c + 2, 5*r + c + 7, 5*r + c + 6 >>
          /\ mesh.shells[e].sec = (IF c \in {0, 3} THEN 1 ELSE 2)
          /\ \A i \in 1..4 : mesh.shells[e].nodes[i] \in mesh.nodes
          /\ mesh.shells[e].sec \in DOMAIN sections
  /\ pc \notin C12_MeshPcs =>
       /\ DOMAIN mesh.shells = 1..40
       /\ mesh.nodes = 1..55

\* the last shell element statement has just run
C12_Witness ==
  /\ pc = "fixY"
  /\ DOMAIN mesh.shells = 1..40
  /\ mesh.shells[40] = [nodes |-> << 49, 50, 55, 54 >>, sec |-> 1]
  /\ fixed = {}


\* C13: in the pushover phase every file the program writes (React.out,
\* Disp.out, the saved image) lies in a directory the program has ensured
\* exists before the write: the directory the script checks and creates is
\* the directory of the recorder files and of the saved image.
C13_OutputDirsEnsured ==
  /\ \A f \in fs.written : f.dir \in fs.ensured
  /\ \A r \in fs.recorders : r.dir \in fs.ensured
  /\ pc = "plot" => CurveFile.dir \in fs.ensured

====
